---- MODULE Spec2Model ----
(***************************************************************************)
(* UVM (variant 23): the assembler's encoder, the interpreter's decoder    *)
(* and the stack machine executor.                                         *)
(*                                                                         *)
(* Three specifications share the variables:                               *)
(*   Spec        assembler main followed by interpreter main on its output *)
(*   SpecInterp  interpreter main on an arbitrary binary file              *)
(*   SpecVM      VM.run on an arbitrary IR list                            *)
(*   SpecWide    encode then decode of one LOAD_CONST of any operand       *)
(***************************************************************************)
EXTENDS Integers, Sequences, FiniteSets, TLC

VARIABLES
    src,          \* assembler: the IR built from the YAML source (list of IRInstr)
    code,         \* the machine code bytes (assembler output / interpreter input)
    i,            \* decode: cursor, 0-based offset into code
    ir,           \* decode: the list of instructions emitted so far
    err,          \* decode: the SystemExit raised, <<>> while none
    mem_size,     \* --mem-size
    code_memory,  \* VM.code_memory
    data_memory,  \* VM.data_memory, a function on 0 .. mem_size-1 (<<>> before VM())
    stack,        \* VM.stack, top of stack is the last element
    ip,           \* VM.run: number of instructions of code_memory already taken by the for loop
    fault,        \* VM.run: the RuntimeError raised, <<>> while none
    pc            \* position of the program

vars == <<src, code, i, ir, err, mem_size, code_memory, data_memory, stack, ip, fault, pc>>

(***************************************************************************)
(* Bounds of the model                                                     *)
(***************************************************************************)
MaxProg == 3      \* longest IR list given to the assembler or to VM.run
MaxCode == 3      \* longest binary file given to the interpreter
MaxOperand == 5000 \* largest magnitude of the operand in SpecWide

(***************************************************************************)
(* Program constants                                                       *)
(***************************************************************************)
A_LOAD_CONST == 14
A_READ_MEM == 38
A_WRITE_MEM == 27
A_LE == 12
DefaultMemSize == 1024

\* the assembler's own table
OPCODES == [LOAD_CONST |-> 14, READ_MEM |-> 38, WRITE_MEM |-> 27, LE |-> 12]

\* the table with the names of READ_MEM and WRITE_MEM exchanged
one_byte_Swapped == (A_READ_MEM :> "WRITE_MEM") @@ (A_WRITE_MEM :> "READ_MEM") @@ (A_LE :> "LE")

one_byte == (A_READ_MEM :> "READ_MEM") @@ (A_WRITE_MEM :> "WRITE_MEM") @@ (A_LE :> "LE")

(***************************************************************************)
(* Python integer operators (unbounded two's complement)                   *)
(***************************************************************************)
RECURSIVE BitAnd(_, _)
BitAnd(a, b) ==
    IF a = 0 \/ b = 0 THEN 0
    ELSE IF a = -1 THEN b
    ELSE IF b = -1 THEN a
    ELSE (IF a % 2 = 1 /\ b % 2 = 1 THEN 1 ELSE 0) + 2 * BitAnd(a \div 2, b \div 2)

RECURSIVE BitOr(_, _)
BitOr(a, b) ==
    IF a = 0 THEN b
    ELSE IF b = 0 THEN a
    ELSE IF a = -1 \/ b = -1 THEN -1
    ELSE (IF a % 2 = 1 \/ b % 2 = 1 THEN 1 ELSE 0) + 2 * BitOr(a \div 2, b \div 2)

Shl(a, k) == a * (2 ^ k)
Shr(a, k) == a \div (2 ^ k)

(***************************************************************************)
(* IRInstr: B is Optional[int], <<>> for None and <<b>> for the integer b  *)
(***************************************************************************)
None == <<>>
IRInstr(op, A, B) == [op |-> op, A |-> A, B |-> B]

LOAD_CONST(b) == IRInstr("LOAD_CONST", OPCODES["LOAD_CONST"], <<b>>)
READ_MEM == IRInstr("READ_MEM", OPCODES["READ_MEM"], None)
WRITE_MEM == IRInstr("WRITE_MEM", OPCODES["WRITE_MEM"], None)
LE == IRInstr("LE", OPCODES["LE"], None)

(***************************************************************************)
(* Inputs                                                                  *)
(***************************************************************************)
Operands == {-1, 1, 5, 10, 99, 1023, 5000}
Instrs == {LOAD_CONST(b) : b \in Operands} \cup {READ_MEM, WRITE_MEM, LE}
\* every short IR list, and the write-then-read-back programs of any operands
Scenarios == {<<LOAD_CONST(a), LOAD_CONST(v), WRITE_MEM, LOAD_CONST(a), READ_MEM>> :
                  a \in Operands, v \in Operands}
\* the programs that write a cell and then run into an instruction that fails
FaultScenarios == {<<LOAD_CONST(a), LOAD_CONST(v), WRITE_MEM, ins>> :
                       a \in Operands, v \in Operands, ins \in {READ_MEM, WRITE_MEM, LE}}
Programs == UNION {[1..k -> Instrs] : k \in 0..MaxProg} \cup Scenarios \cup FaultScenarios

\* the sources given to the assembler: the programs of fewer operand values
SrcOperands == {-1, 1, 5, 1023, 5000}
SrcPrograms == {p \in Programs :
                   \A k \in 1..Len(p) : p[k].op = "LOAD_CONST" => p[k].B[1] \in SrcOperands}

ByteVals == {0, 1, 12, 14, 27, 38, 46, 76, 78, 142, 206, 255}
ByteBufs == UNION {[1..k -> ByteVals] : k \in 0..MaxCode}

MemSizes == {4, DefaultMemSize}

\* a LOAD_CONST of any operand of the range, alone or followed by READ_MEM
WideOperands == (-MaxOperand)..MaxOperand
WidePrograms == {<<LOAD_CONST(b)>> : b \in WideOperands}
                    \cup {<<LOAD_CONST(b), READ_MEM>> : b \in WideOperands}

(***************************************************************************)
(* assembler.encode                                                        *)
(***************************************************************************)
\* encode with the word's bytes in big-endian order
EncodeIns_BigEndian(ins) ==
    IF ins.op = "LOAD_CONST"
    THEN LET word == BitOr(ins.A, Shl(ins.B[1], 6))
         IN  <<BitAnd(Shr(word, 8), 255), BitAnd(word, 255)>>
    ELSE <<BitAnd(ins.A, 255)>>

\* encode with the operand shifted into the high byte (B << 8)
EncodeIns_Shift8(ins) ==
    IF ins.op = "LOAD_CONST"
    THEN LET word == BitOr(ins.A, Shl(ins.B[1], 8))
         IN  <<BitAnd(word, 255), BitAnd(Shr(word, 8), 255)>>
    ELSE <<BitAnd(ins.A, 255)>>

\* encode with every instruction aligned to two bytes
EncodeIns_Padded(ins) ==
    IF ins.op = "LOAD_CONST"
    THEN LET word == BitOr(ins.A, Shl(ins.B[1], 6))
         IN  <<BitAnd(word, 255), BitAnd(Shr(word, 8), 255)>>
    ELSE <<BitAnd(ins.A, 255), 0>>

\* encode with the opcode in the high bits of the word and the operand below
EncodeIns_OpcodeHigh(ins) ==
    IF ins.op = "LOAD_CONST"
    THEN LET word == BitOr(Shl(ins.A, 10), BitAnd(ins.B[1], 1023))
         IN  <<BitAnd(word, 255), BitAnd(Shr(word, 8), 255)>>
    ELSE <<BitAnd(ins.A, 255)>>

\* encode that clamps the operand into 0..1023 before packing it
EncodeIns_Clamp(ins) ==
    IF ins.op = "LOAD_CONST"
    THEN LET b == IF ins.B[1] < 0 THEN 0 ELSE IF ins.B[1] > 1023 THEN 1023 ELSE ins.B[1]
             word == BitOr(ins.A, Shl(b, 6))
         IN  <<BitAnd(word, 255), BitAnd(Shr(word, 8), 255)>>
    ELSE <<BitAnd(ins.A, 255)>>

EncodeIns(ins) ==
    IF ins.op = "LOAD_CONST"
    THEN LET word == BitOr(ins.A, Shl(ins.B[1], 6))
         IN  <<BitAnd(word, 255), BitAnd(Shr(word, 8), 255)>>
    ELSE <<BitAnd(ins.A, 255)>>

RECURSIVE encode(_)
encode(irs) ==
    IF irs = <<>> THEN <<>> ELSE EncodeIns(Head(irs)) \o encode(Tail(irs))

(***************************************************************************)
(* interpreter.decode: one iteration of the while loop                     *)
(***************************************************************************)
\* decode with the operand taken from the high byte alone (B = word >> 8)
DecodeIter_Shift8(c, k, out) ==
    LET n == Len(c)
        b0 == c[k + 1]
    IN  IF b0 \in DOMAIN one_byte
        THEN [ir |-> Append(out, IRInstr(one_byte[b0], b0, None)), i |-> k + 1, err |-> <<>>]
        ELSE IF k + 1 >= n
        THEN [ir |-> out, i |-> k, err |-> <<"TruncatedStream", k>>]
        ELSE LET b1 == c[k + 2]
                 word == BitOr(b0, Shl(b1, 8))
                 A == BitAnd(word, 63)
                 B == Shr(word, 8)
             IN  IF A # A_LOAD_CONST
                 THEN [ir |-> out, i |-> k, err |-> <<"UnknownOpcode", k, A, word>>]
                 ELSE [ir |-> Append(out, IRInstr("LOAD_CONST", A_LOAD_CONST, <<B>>)),
                       i |-> k + 2, err |-> <<>>]

\* decode with a one-byte command advancing the cursor by two
DecodeIter_Skip(c, k, out) ==
    LET n == Len(c)
        b0 == c[k + 1]
    IN  IF b0 \in DOMAIN one_byte
        THEN [ir |-> Append(out, IRInstr(one_byte[b0], b0, None)), i |-> k + 2, err |-> <<>>]
        ELSE IF k + 1 >= n
        THEN [ir |-> out, i |-> k, err |-> <<"TruncatedStream", k>>]
        ELSE LET b1 == c[k + 2]
                 word == BitOr(b0, Shl(b1, 8))
                 A == BitAnd(word, 63)
                 B == Shr(word, 6)
             IN  IF A # A_LOAD_CONST
                 THEN [ir |-> out, i |-> k, err |-> <<"UnknownOpcode", k, A, word>>]
                 ELSE [ir |-> Append(out, IRInstr("LOAD_CONST", A_LOAD_CONST, <<B>>)),
                       i |-> k + 2, err |-> <<>>]

\* decode that looks at the opcode bits of the first byte before it looks for
\* the second byte
DecodeIter_OpcodeFirst(c, k, out) ==
    LET n == Len(c)
        b0 == c[k + 1]
    IN  IF b0 \in DOMAIN one_byte
        THEN [ir |-> Append(out, IRInstr(one_byte[b0], b0, None)), i |-> k + 1, err |-> <<>>]
        ELSE IF BitAnd(b0, 63) # A_LOAD_CONST
        THEN [ir |-> out, i |-> k, err |-> <<"UnknownOpcode", k, BitAnd(b0, 63), b0>>]
        ELSE IF k + 1 >= n
        THEN [ir |-> out, i |-> k, err |-> <<"TruncatedStream", k>>]
        ELSE LET b1 == c[k + 2]
                 word == BitOr(b0, Shl(b1, 8))
                 B == Shr(word, 6)
             IN  [ir |-> Append(out, IRInstr("LOAD_CONST", A_LOAD_CONST, <<B>>)),
                  i |-> k + 2, err |-> <<>>]

\* decode that takes the whole low byte for A (A = word & 0xFF)
DecodeIter_RawA(c, k, out) ==
    LET n == Len(c)
        b0 == c[k + 1]
    IN  IF b0 \in DOMAIN one_byte
        THEN [ir |-> Append(out, IRInstr(one_byte[b0], b0, None)), i |-> k + 1, err |-> <<>>]
        ELSE IF k + 1 >= n
        THEN [ir |-> out, i |-> k, err |-> <<"TruncatedStream", k>>]
        ELSE LET b1 == c[k + 2]
                 word == BitOr(b0, Shl(b1, 8))
                 A == BitAnd(word, 255)
                 B == Shr(word, 6)
             IN  IF A # A_LOAD_CONST
                 THEN [ir |-> out, i |-> k, err |-> <<"UnknownOpcode", k, A, word>>]
                 ELSE [ir |-> Append(out, IRInstr("LOAD_CONST", A_LOAD_CONST, <<B>>)),
                       i |-> k + 2, err |-> <<>>]

\* decode that emits a one-byte command without moving the cursor
DecodeIter_NoAdvance(c, k, out) ==
    LET n == Len(c)
        b0 == c[k + 1]
    IN  IF b0 \in DOMAIN one_byte
        THEN [ir |-> Append(out, IRInstr(one_byte[b0], b0, None)), i |-> k, err |-> <<>>]
        ELSE IF k + 1 >= n
        THEN [ir |-> out, i |-> k, err |-> <<"TruncatedStream", k>>]
        ELSE LET b1 == c[k + 2]
                 word == BitOr(b0, Shl(b1, 8))
                 A == BitAnd(word, 63)
                 B == Shr(word, 6)
             IN  IF A # A_LOAD_CONST
                 THEN [ir |-> out, i |-> k, err |-> <<"UnknownOpcode", k, A, word>>]
                 ELSE [ir |-> Append(out, IRInstr("LOAD_CONST", A_LOAD_CONST, <<B>>)),
                       i |-> k + 2, err |-> <<>>]

\* decode that takes the whole word for the operand (B = word)
DecodeIter_NoShift(c, k, out) ==
    LET n == Len(c)
        b0 == c[k + 1]
    IN  IF b0 \in DOMAIN one_byte
        THEN [ir |-> Append(out, IRInstr(one_byte[b0], b0, None)), i |-> k + 1, err |-> <<>>]
        ELSE IF k + 1 >= n
        THEN [ir |-> out, i |-> k, err |-> <<"TruncatedStream", k>>]
        ELSE LET b1 == c[k + 2]
                 word == BitOr(b0, Shl(b1, 8))
                 A == BitAnd(word, 63)
                 B == word
             IN  IF A # A_LOAD_CONST
                 THEN [ir |-> out, i |-> k, err |-> <<"UnknownOpcode", k, A, word>>]
                 ELSE [ir |-> Append(out, IRInstr("LOAD_CONST", A_LOAD_CONST, <<B>>)),
                       i |-> k + 2, err |-> <<>>]

DecodeIter(c, k, out) ==
    LET n == Len(c)
        b0 == c[k + 1]
    IN  IF b0 \in DOMAIN one_byte
        THEN [ir |-> Append(out, IRInstr(one_byte[b0], b0, None)), i |-> k + 1, err |-> <<>>]
        ELSE IF k + 1 >= n
        THEN [ir |-> out, i |-> k, err |-> <<"TruncatedStream", k>>]
        ELSE LET b1 == c[k + 2]
                 word == BitOr(b0, Shl(b1, 8))
                 A == BitAnd(word, 63)
                 B == Shr(word, 6)
             IN  IF A # A_LOAD_CONST
                 THEN [ir |-> out, i |-> k, err |-> <<"UnknownOpcode", k, A, word>>]
                 ELSE [ir |-> Append(out, IRInstr("LOAD_CONST", A_LOAD_CONST, <<B>>)),
                       i |-> k + 2, err |-> <<>>]

(***************************************************************************)
(* VM.pop, VM.push, VM.exec_one                                            *)
(***************************************************************************)
Push(stk, v) == Append(stk, v)

\* the result of exec_one: the stack and memory it leaves and the error raised
Outcome(stk, mem, f) == [stack |-> stk, data_memory |-> mem, fault |-> f]

\* READ_MEM that reads the address without popping it
ExecReadMem_Peek(stk, mem) ==
    IF stk = <<>> THEN Outcome(stk, mem, <<"StackUnderflow">>)
    ELSE LET addr == stk[Len(stk)]
             s1 == SubSeq(stk, 1, Len(stk) - 1)
         IN  IF addr < 0 \/ addr >= Cardinality(DOMAIN mem)
             THEN Outcome(s1, mem, <<"AddressOutOfRange", "READ_MEM", addr>>)
             ELSE Outcome(Push(stk, mem[addr]), mem, <<>>)

ExecReadMem(stk, mem) ==
    IF stk = <<>> THEN Outcome(stk, mem, <<"StackUnderflow">>)
    ELSE LET addr == stk[Len(stk)]
             s1 == SubSeq(stk, 1, Len(stk) - 1)
         IN  IF addr < 0 \/ addr >= Cardinality(DOMAIN mem)
             THEN Outcome(s1, mem, <<"AddressOutOfRange", "READ_MEM", addr>>)
             ELSE Outcome(Push(s1, mem[addr]), mem, <<>>)

\* WRITE_MEM that pops the address first and the value second
ExecWriteMem_AddrFirst(stk, mem) ==
    IF stk = <<>> THEN Outcome(stk, mem, <<"StackUnderflow">>)
    ELSE LET addr == stk[Len(stk)]
             s1 == SubSeq(stk, 1, Len(stk) - 1)
         IN  IF s1 = <<>> THEN Outcome(s1, mem, <<"StackUnderflow">>)
             ELSE LET value == s1[Len(s1)]
                      s2 == SubSeq(s1, 1, Len(s1) - 1)
                  IN  IF addr < 0 \/ addr >= Cardinality(DOMAIN mem)
                      THEN Outcome(s2, mem, <<"AddressOutOfRange", "WRITE_MEM", addr>>)
                      ELSE Outcome(s2, [mem EXCEPT ![addr] = value], <<>>)

\* WRITE_MEM that checks the range of the first item it pops before it pops
\* the second
ExecWriteMem_CheckFirst(stk, mem) ==
    IF stk = <<>> THEN Outcome(stk, mem, <<"StackUnderflow">>)
    ELSE LET value == stk[Len(stk)]
             s1 == SubSeq(stk, 1, Len(stk) - 1)
         IN  IF value < 0 \/ value >= Cardinality(DOMAIN mem)
             THEN Outcome(s1, mem, <<"AddressOutOfRange", "WRITE_MEM", value>>)
             ELSE IF s1 = <<>> THEN Outcome(s1, mem, <<"StackUnderflow">>)
             ELSE LET addr == s1[Len(s1)]
                      s2 == SubSeq(s1, 1, Len(s1) - 1)
                  IN  IF addr < 0 \/ addr >= Cardinality(DOMAIN mem)
                      THEN Outcome(s2, mem, <<"AddressOutOfRange", "WRITE_MEM", addr>>)
                      ELSE Outcome(s2, [mem EXCEPT ![addr] = value], <<>>)

\* WRITE_MEM that wraps the address into the memory instead of rejecting it
ExecWriteMem_Wrap(stk, mem) ==
    IF stk = <<>> THEN Outcome(stk, mem, <<"StackUnderflow">>)
    ELSE LET value == stk[Len(stk)]
             s1 == SubSeq(stk, 1, Len(stk) - 1)
         IN  IF s1 = <<>> THEN Outcome(s1, mem, <<"StackUnderflow">>)
             ELSE LET addr == s1[Len(s1)] % Cardinality(DOMAIN mem)
                      s2 == SubSeq(s1, 1, Len(s1) - 1)
                  IN  Outcome(s2, [mem EXCEPT ![addr] = value], <<>>)

\* WRITE_MEM that checks before it pops, so that a fault keeps the stack
ExecWriteMem_Restore(stk, mem) ==
    IF Len(stk) < 2 THEN Outcome(stk, mem, <<"StackUnderflow">>)
    ELSE LET value == stk[Len(stk)]
             addr == stk[Len(stk) - 1]
             s2 == SubSeq(stk, 1, Len(stk) - 2)
         IN  IF addr < 0 \/ addr >= Cardinality(DOMAIN mem)
             THEN Outcome(stk, mem, <<"AddressOutOfRange", "WRITE_MEM", addr>>)
             ELSE Outcome(s2, [mem EXCEPT ![addr] = value], <<>>)

ExecWriteMem(stk, mem) ==
    IF stk = <<>> THEN Outcome(stk, mem, <<"StackUnderflow">>)
    ELSE LET value == stk[Len(stk)]
             s1 == SubSeq(stk, 1, Len(stk) - 1)
         IN  IF s1 = <<>> THEN Outcome(s1, mem, <<"StackUnderflow">>)
             ELSE LET addr == s1[Len(s1)]
                      s2 == SubSeq(s1, 1, Len(s1) - 1)
                  IN  IF addr < 0 \/ addr >= Cardinality(DOMAIN mem)
                      THEN Outcome(s2, mem, <<"AddressOutOfRange", "WRITE_MEM", addr>>)
                      ELSE Outcome(s2, [mem EXCEPT ![addr] = value], <<>>)

\* exec_one that skips LE silently
exec_one_LENoop(ins, stk, mem) ==
    IF ins.op = "LOAD_CONST" THEN Outcome(Push(stk, ins.B[1]), mem, <<>>)
    ELSE IF ins.op = "READ_MEM" THEN ExecReadMem(stk, mem)
    ELSE IF ins.op = "WRITE_MEM" THEN ExecWriteMem(stk, mem)
    ELSE IF ins.op = "LE" THEN Outcome(stk, mem, <<>>)
    ELSE Outcome(stk, mem, <<"UnknownIROp", ins.op>>)

exec_one(ins, stk, mem) ==
    IF ins.op = "LOAD_CONST" THEN Outcome(Push(stk, ins.B[1]), mem, <<>>)
    ELSE IF ins.op = "READ_MEM" THEN ExecReadMem(stk, mem)
    ELSE IF ins.op = "WRITE_MEM" THEN ExecWriteMem(stk, mem)
    ELSE IF ins.op = "LE" THEN Outcome(stk, mem, <<"UnimplementedOpcode">>)
    ELSE Outcome(stk, mem, <<"UnknownIROp", ins.op>>)

(***************************************************************************)
(* Initial states                                                          *)
(***************************************************************************)
NoVM ==
    /\ code_memory = <<>>
    /\ data_memory = <<>>
    /\ stack = <<>>
    /\ ip = 0
    /\ fault = <<>>

NoDecode ==
    /\ i = 0
    /\ ir = <<>>
    /\ err = <<>>

\* assembler main after build_ir
Init ==
    /\ src \in SrcPrograms
    /\ code = <<>>
    /\ mem_size \in MemSizes
    /\ NoDecode
    /\ NoVM
    /\ pc = "encode"

\* interpreter main after load_bin
InitInterp ==
    /\ src = <<>>
    /\ code \in ByteBufs
    /\ mem_size \in MemSizes
    /\ NoDecode
    /\ NoVM
    /\ pc = "decode"

\* assembler main after build_ir, on a source of one LOAD_CONST
InitWide ==
    /\ src \in WidePrograms
    /\ code = <<>>
    /\ mem_size = DefaultMemSize
    /\ NoDecode
    /\ NoVM
    /\ pc = "encode"

\* a caller of VM(mem_size).run(ir)
InitVM ==
    /\ src = <<>>
    /\ code = <<>>
    /\ mem_size \in MemSizes
    /\ i = 0
    /\ ir \in Programs
    /\ err = <<>>
    /\ NoVM
    /\ pc = "vm"

(***************************************************************************)
(* Actions                                                                 *)
(***************************************************************************)
\* assembler main: encode(ir), write the file; interpreter main: load_bin
Encode ==
    /\ pc = "encode"
    /\ code' = encode(src)
    /\ pc' = "decode"
    /\ UNCHANGED <<src, i, ir, err, mem_size, code_memory, data_memory, stack, ip, fault>>

\* decode: one iteration of `while i < n`
DecodeStep ==
    /\ pc = "decode"
    /\ i < Len(code)
    /\ LET r == DecodeIter(code, i, ir)
       IN  /\ ir' = r.ir
           /\ i' = r.i
           /\ err' = r.err
           /\ pc' = IF r.err # <<>> THEN "exit" ELSE "decode"
    /\ UNCHANGED <<src, code, mem_size, code_memory, data_memory, stack, ip, fault>>

\* decode: the loop ends, `return ir`
DecodeReturn ==
    /\ pc = "decode"
    /\ ~(i < Len(code))
    /\ pc' = "vm"
    /\ UNCHANGED <<src, code, i, ir, err, mem_size, code_memory, data_memory, stack, ip, fault>>

\* VM() that allocates one cell too many
RunStart_ExtraCell ==
    /\ pc = "vm"
    /\ code_memory' = ir
    /\ data_memory' = [a \in 0..mem_size |-> 0]
    /\ stack' = <<>>
    /\ ip' = 0
    /\ pc' = "run"
    /\ UNCHANGED <<src, code, i, ir, err, mem_size, fault>>

\* VM(mem_size) and the first line of run: code_memory = ir[:]
RunStart ==
    /\ pc = "vm"
    /\ code_memory' = ir
    /\ data_memory' = [a \in 0..(mem_size - 1) |-> 0]
    /\ stack' = <<>>
    /\ ip' = 0
    /\ pc' = "run"
    /\ UNCHANGED <<src, code, i, ir, err, mem_size, fault>>

\* run that notes the error of an instruction and goes on with the next one
ExecStep_Continue ==
    /\ pc = "run"
    /\ ip < Len(code_memory)
    /\ LET r == exec_one(code_memory[ip + 1], stack, data_memory)
       IN  /\ stack' = r.stack
           /\ data_memory' = r.data_memory
           /\ fault' = r.fault
           /\ pc' = "run"
    /\ ip' = ip + 1
    /\ UNCHANGED <<src, code, i, ir, err, mem_size, code_memory>>

\* run: one iteration of `for ins in self.code_memory`
ExecStep ==
    /\ pc = "run"
    /\ ip < Len(code_memory)
    /\ LET r == exec_one(code_memory[ip + 1], stack, data_memory)
       IN  /\ stack' = r.stack
           /\ data_memory' = r.data_memory
           /\ fault' = r.fault
           /\ pc' = IF r.fault # <<>> THEN "fault" ELSE "run"
    /\ ip' = ip + 1
    /\ UNCHANGED <<src, code, i, ir, err, mem_size, code_memory>>

\* run: the for loop ends
RunReturn ==
    /\ pc = "run"
    /\ ~(ip < Len(code_memory))
    /\ pc' = "done"
    /\ UNCHANGED <<src, code, i, ir, err, mem_size, code_memory, data_memory, stack, ip, fault>>

Next == Encode \/ DecodeStep \/ DecodeReturn \/ RunStart \/ ExecStep \/ RunReturn
Spec == Init /\ [][Next]_vars

NextInterp == DecodeStep \/ DecodeReturn \/ RunStart \/ ExecStep \/ RunReturn
SpecInterp == InitInterp /\ [][NextInterp]_vars

\* the interpreter is one sequential process: it keeps taking its next step
\* (checked with the small memory, --mem-size 4, on files of fewer byte values)
SmallByteVals == {0, 1, 12, 14, 27, 38, 78, 255}
InitInterpSmall ==
    /\ src = <<>>
    /\ code \in UNION {[1..k -> SmallByteVals] : k \in 0..MaxCode}
    /\ mem_size = 4
    /\ NoDecode
    /\ NoVM
    /\ pc = "decode"
SpecInterpFair == InitInterpSmall /\ [][NextInterp]_vars /\ WF_vars(NextInterp)

NextWide == Encode \/ DecodeStep \/ DecodeReturn
SpecWide == InitWide /\ [][NextWide]_vars

NextVM == RunStart \/ ExecStep \/ RunReturn
SpecVM == InitVM /\ [][NextVM]_vars

(***************************************************************************)
(* Properties                                                              *)
(***************************************************************************)
\* decode has returned its list (the interpreter went on to the VM)
Decoded == pc \in {"vm", "run", "fault", "done"}

\* C1: round trip. For every instruction sequence of LOAD_CONST(B) with B in
\* 0..1023, READ_MEM, WRITE_MEM and LE, decoding the encoder's output never
\* fails and returns a sequence equal to the one encoded.
C1_RoundTrip ==
    LET valid == \A k \in 1..Len(src) :
                     src[k].op = "LOAD_CONST" => src[k].B[1] \in 0..1023
    IN  valid => /\ pc # "exit"
                 /\ err = <<>>
                 /\ Decoded => (ir = src /\ Len(ir) = Len(src))

C1_Witness ==
    /\ pc = "vm"
    /\ Len(src) >= 3
    /\ \E k \in 1..Len(src) : src[k] = LOAD_CONST(1023)
    /\ \E k \in 1..Len(src) : src[k].op # "LOAD_CONST"
    /\ ir = src

\* C3: byte-exact LOAD_CONST. For B in 0..1023 the encoding of [LOAD_CONST(B)]
\* is the two bytes (14 + 64*B) mod 256, ((14 + 64*B) div 256) mod 256; for
\* B = 5 they are 0x4E, 0x01.
C3_LoadConstBytes ==
    (pc # "encode" /\ Len(src) = 1 /\ src[1].op = "LOAD_CONST") =>
        LET B == src[1].B[1]
        IN  /\ B \in 0..1023 =>
                   code = <<(14 + 64 * B) % 256, ((14 + 64 * B) \div 256) % 256>>
            /\ B = 5 => code = <<78, 1>>

C3_Witness ==
    /\ pc = "decode"
    /\ src = <<LOAD_CONST(5)>>
    /\ code = <<78, 1>>
    /\ i = 0

\* C2: the other direction. Whenever decode succeeds on a byte buffer, encoding
\* the decoded list gives back the buffer byte for byte.
C2_EncodeOfDecode == Decoded => encode(ir) = code

C2_Witness ==
    /\ pc = "vm"
    /\ Len(code) = 3
    /\ \E k \in 1..Len(ir) : ir[k].op = "LOAD_CONST" /\ ir[k].B[1] > 255
    /\ \E k \in 1..Len(ir) : ir[k].op # "LOAD_CONST"
    /\ encode(ir) = code

\* C4: the buffer is the in-order concatenation of the instructions' encodings,
\* one byte 0x26 / 0x1B / 0x0C for READ_MEM / WRITE_MEM / LE and two bytes for
\* LOAD_CONST, without separators or padding: its length is twice the number of
\* LOAD_CONST plus the number of the others, and encoding distributes over
\* concatenation (stated of the buffer when encode has just produced it).
C4_Concatenation ==
    (pc = "decode" /\ i = 0) =>
        LET n == Len(src)
            nLC(k) == Cardinality({j \in 1..k : src[j].op = "LOAD_CONST"})
            off(k) == (k - 1) + nLC(k - 1)
        IN  /\ Len(code) = 2 * nLC(n) + (n - nLC(n))
            /\ \A k \in 1..n :
                   /\ src[k] = READ_MEM => SubSeq(code, off(k) + 1, off(k) + 1) = <<38>>
                   /\ src[k] = WRITE_MEM => SubSeq(code, off(k) + 1, off(k) + 1) = <<27>>
                   /\ src[k] = LE => SubSeq(code, off(k) + 1, off(k) + 1) = <<12>>
                   /\ src[k].op = "LOAD_CONST" =>
                          SubSeq(code, off(k) + 1, off(k) + 2) = encode(<<src[k]>>)
            /\ \A k \in 0..n :
                   code = encode(SubSeq(src, 1, k)) \o encode(SubSeq(src, k + 1, n))

C4_Witness ==
    /\ pc = "decode"
    /\ i = 0
    /\ Len(src) = 3
    /\ src[2].op = "LOAD_CONST"
    /\ src[1] = READ_MEM
    /\ src[3] = LE
    /\ Len(code) = 4

\* C5: exact consumption. decode ends in success, TruncatedStream or
\* UnknownOpcode; the cursor always stays within 0..len(buffer); on success
\* the cursor is len(buffer) and the widths of the emitted instructions
\* (2 for LOAD_CONST, 1 otherwise) add up to len(buffer).
C5_ExactConsumption ==
    /\ 0 <= i /\ i <= Len(code)
    /\ (pc = "exit") <=> (err # <<>>)
    /\ err # <<>> => err[1] \in {"TruncatedStream", "UnknownOpcode"}
    /\ Decoded =>
           /\ err = <<>>
           /\ i = Len(code)
           /\ Len(ir) + Cardinality({k \in 1..Len(ir) : ir[k].op = "LOAD_CONST"}) = Len(code)

C5_Witness ==
    /\ pc = "vm"
    /\ Len(code) = 3
    /\ i = 3
    /\ Len(ir) = 2
    /\ ir[1].op = "LOAD_CONST"
    /\ code[2] \in DOMAIN one_byte

\* C6: truncated stream. When the byte at the cursor is not 12, 27 or 38 and is
\* the last byte of the buffer, decode fails with TruncatedStream at that
\* offset, whatever the byte's low 6 bits are, and no list reaches the VM;
\* the buffers [0x4E] and [0x01] both fail so.
C6_Truncated ==
    /\ [][ (/\ pc = "decode"
            /\ i < Len(code)
            /\ code[i + 1] \notin {12, 27, 38}
            /\ i + 1 = Len(code))
           => (/\ pc' = "exit"
               /\ err' = <<"TruncatedStream", i>>
               /\ code_memory' = <<>>) ]_vars
    /\ [](pc = "exit" => (code_memory = <<>> /\ data_memory = <<>> /\ ip = 0))
    /\ []((code \in {<<78>>, <<1>>} /\ pc # "decode")
             => (pc = "exit" /\ err = <<"TruncatedStream", 0>>))

C6_Witness ==
    /\ pc = "exit"
    /\ Len(code) = 3
    /\ err = <<"TruncatedStream", 2>>
    /\ code[3] = 1
    /\ Len(ir) = 2

\* C7: unknown opcode word. When the byte at the cursor is not 12, 27 or 38, at
\* least two bytes remain and the low 6 bits of the little-endian word at the
\* cursor are not 14, decode fails with UnknownOpcode reporting the cursor
\* offset and the A value, and no list reaches the VM; [0x01, 0x00] fails with
\* A = 1 at offset 0.
C7_UnknownOpcode ==
    /\ [][ (/\ pc = "decode"
            /\ i + 2 <= Len(code)
            /\ code[i + 1] \notin {12, 27, 38}
            /\ (code[i + 1] + 256 * code[i + 2]) % 64 # 14)
           => (/\ pc' = "exit"
               /\ Len(err') = 4
               /\ err'[1] = "UnknownOpcode"
               /\ err'[2] = i
               /\ err'[3] = (code[i + 1] + 256 * code[i + 2]) % 64
               /\ code_memory' = <<>>) ]_vars
    /\ []((code = <<1, 0>> /\ pc # "decode")
             => (pc = "exit" /\ err[1] = "UnknownOpcode" /\ err[2] = 0 /\ err[3] = 1))

C7_Witness ==
    /\ pc = "exit"
    /\ Len(code) = 3
    /\ code[2] = 255
    /\ err[1] = "UnknownOpcode"
    /\ err[2] = 1
    /\ err[3] = 63

\* the instruction the for loop of run takes next
Fetch(op) == pc = "run" /\ ip < Len(code_memory) /\ code_memory[ip + 1].op = op

\* C8: WRITE_MEM stack order. On a stack of at least two items, top v and a
\* below it with 0 <= a < size, WRITE_MEM sets mem[a] = v, changes no other
\* cell and removes the top two items; [LOAD_CONST(10), LOAD_CONST(99),
\* WRITE_MEM] from the initial state gives mem[10] = 99 and an empty stack.
C8_WriteMem ==
    /\ [][ (/\ Fetch("WRITE_MEM")
            /\ Len(stack) >= 2
            /\ stack[Len(stack) - 1] \in 0..(mem_size - 1))
           => LET v == stack[Len(stack)]
                  a == stack[Len(stack) - 1]
              IN  /\ data_memory'[a] = v
                  /\ DOMAIN data_memory' = 0..(mem_size - 1)
                  /\ \A c \in 0..(mem_size - 1) : c # a => data_memory'[c] = data_memory[c]
                  /\ stack' = SubSeq(stack, 1, Len(stack) - 2)
                  /\ fault' = <<>>
                  /\ pc' = "run" ]_vars
    /\ []((/\ code_memory = <<LOAD_CONST(10), LOAD_CONST(99), WRITE_MEM>>
            /\ ip = 3
            /\ mem_size > 10)
             => /\ data_memory[10] = 99
                /\ mem_size > 99 => data_memory[99] = 0
                /\ stack = <<>>
                /\ fault = <<>>)

C8_Witness ==
    /\ pc = "run"
    /\ code_memory = <<LOAD_CONST(10), LOAD_CONST(99), WRITE_MEM>>
    /\ ip = 3
    /\ mem_size = 1024
    /\ data_memory[10] = 99
    /\ stack = <<>>

\* C9: READ_MEM. On a non-empty stack whose top a satisfies 0 <= a < size,
\* READ_MEM replaces the top by mem[a] and leaves the depth and the memory
\* unchanged; after a successful write of v to a, [LOAD_CONST(a), READ_MEM]
\* leaves v on top; reading an address never written gives 0.
C9_ReadMem ==
    /\ [][ (/\ Fetch("READ_MEM")
            /\ Len(stack) >= 1
            /\ stack[Len(stack)] \in 0..(mem_size - 1))
           => /\ stack' = [stack EXCEPT ![Len(stack)] = data_memory[stack[Len(stack)]]]
              /\ Len(stack') = Len(stack)
              /\ data_memory' = data_memory
              /\ fault' = <<>>
              /\ pc' = "run" ]_vars
    /\ [](\A k \in 1..(Len(code_memory) - 4) :
            (/\ ip = k + 4
             /\ code_memory[k].op = "LOAD_CONST"
             /\ code_memory[k].B[1] \in 0..(mem_size - 1)
             /\ code_memory[k + 1].op = "LOAD_CONST"
             /\ code_memory[k + 2] = WRITE_MEM
             /\ code_memory[k + 3] = code_memory[k]
             /\ code_memory[k + 4] = READ_MEM)
              => /\ fault = <<>>
                 /\ stack # <<>>
                 /\ stack[Len(stack)] = code_memory[k + 1].B[1])
    /\ []((/\ ip >= 1
            /\ ip <= Len(code_memory)
            /\ code_memory[ip] = READ_MEM
            /\ fault = <<>>
            /\ \A k \in 1..ip : code_memory[k] # WRITE_MEM)
             => (stack # <<>> /\ stack[Len(stack)] = 0))

C9_Witness ==
    /\ pc = "run"
    /\ mem_size = 1024
    /\ code_memory = <<LOAD_CONST(10), LOAD_CONST(99), WRITE_MEM, LOAD_CONST(10), READ_MEM>>
    /\ ip = 5
    /\ stack = <<99>>
    /\ data_memory[10] = 99

\* C10: stack underflow. READ_MEM on an empty stack and WRITE_MEM on a stack of
\* 0 or 1 items fail with StackUnderflow and leave the memory unchanged; with
\* exactly one item the fault of WRITE_MEM is StackUnderflow, never
\* AddressOutOfRange, whatever the item.
C10_Underflow ==
    [][ (\/ Fetch("READ_MEM") /\ Len(stack) = 0
         \/ Fetch("WRITE_MEM") /\ Len(stack) < 2)
        => (/\ fault' = <<"StackUnderflow">>
            /\ pc' = "fault"
            /\ data_memory' = data_memory) ]_vars

C10_Witness ==
    /\ pc = "fault"
    /\ fault = <<"StackUnderflow">>
    /\ mem_size = 4
    /\ ip = 2
    /\ code_memory[1] = LOAD_CONST(5000)
    /\ code_memory[2] = WRITE_MEM
    /\ data_memory = [a \in 0..3 |-> 0]

\* C11: address out of range. When READ_MEM has an item, or WRITE_MEM has two,
\* and the address a is negative or >= size, the instruction fails with
\* AddressOutOfRange for a and no memory cell changes; [LOAD_CONST(5000),
\* LOAD_CONST(1), WRITE_MEM] on a memory of 1024 cells fails so for 5000.
C11_OutOfRange ==
    /\ [][ (/\ Fetch("READ_MEM")
            /\ Len(stack) >= 1
            /\ stack[Len(stack)] \notin 0..(mem_size - 1))
           => (/\ fault' = <<"AddressOutOfRange", "READ_MEM", stack[Len(stack)]>>
               /\ pc' = "fault"
               /\ data_memory' = data_memory) ]_vars
    /\ [][ (/\ Fetch("WRITE_MEM")
            /\ Len(stack) >= 2
            /\ stack[Len(stack) - 1] \notin 0..(mem_size - 1))
           => (/\ fault' = <<"AddressOutOfRange", "WRITE_MEM", stack[Len(stack) - 1]>>
               /\ pc' = "fault"
               /\ data_memory' = data_memory) ]_vars
    /\ []((/\ code_memory = <<LOAD_CONST(5000), LOAD_CONST(1), WRITE_MEM>>
            /\ ip = 3
            /\ mem_size = 1024)
             => (/\ pc = "fault"
                 /\ fault = <<"AddressOutOfRange", "WRITE_MEM", 5000>>
                 /\ data_memory = [a \in 0..1023 |-> 0]))

C11_Witness ==
    /\ pc = "fault"
    /\ mem_size = 1024
    /\ code_memory = <<LOAD_CONST(5000), LOAD_CONST(1), WRITE_MEM>>
    /\ ip = 3
    /\ fault = <<"AddressOutOfRange", "WRITE_MEM", 5000>>

\* C12: LE always fails. In every machine state executing LE fails with
\* UnimplementedOpcode and changes neither the stack nor the memory; no run
\* that reaches an LE ends in success.
C12_LEFails ==
    /\ [][ Fetch("LE")
           => (/\ fault' = <<"UnimplementedOpcode">>
               /\ pc' = "fault"
               /\ stack' = stack
               /\ data_memory' = data_memory) ]_vars
    /\ [](\A k \in 1..Len(code_memory) :
            (code_memory[k].op = "LE" /\ ip >= k)
              => (pc = "fault" /\ ip = k /\ fault = <<"UnimplementedOpcode">>))
    /\ [](pc = "done" => \A k \in 1..Len(code_memory) : code_memory[k].op # "LE")

C12_Witness ==
    /\ pc = "fault"
    /\ fault = <<"UnimplementedOpcode">>
    /\ ip = 3
    /\ code_memory[3] = LE
    /\ stack = <<10, 99>>

\* C13: greedy one-byte classification. At every decoder step a byte 12, 27 or
\* 38 at the cursor makes the decoder emit LE, WRITE_MEM or READ_MEM without
\* operand and advance by exactly 1, whatever follows; the cursor never moves
\* back and emitted instructions are never retracted; a byte 12, 27 or 38
\* already passed is either such an instruction or the second byte of a
\* LOAD_CONST word whose first byte is none of the three.
C13_Greedy ==
    /\ [][ (pc = "decode" /\ i < Len(code) /\ code[i + 1] \in {12, 27, 38})
           => (/\ i' = i + 1
               /\ pc' = "decode"
               /\ err' = <<>>
               /\ ir' = Append(ir, [op |-> CASE code[i + 1] = 12 -> "LE"
                                            [] code[i + 1] = 27 -> "WRITE_MEM"
                                            [] code[i + 1] = 38 -> "READ_MEM",
                                    A |-> code[i + 1],
                                    B |-> <<>>]) ) ]_vars
    /\ [][ /\ i' >= i
           /\ Len(ir') >= Len(ir)
           /\ SubSeq(ir', 1, Len(ir)) = ir ]_vars
    /\ [](LET start(k) == (k - 1) + Cardinality({j \in 1..(k - 1) : ir[j].op = "LOAD_CONST"})
          IN  \A p \in 0..(i - 1) :
                  code[p + 1] \in {12, 27, 38} =>
                      \/ \E k \in 1..Len(ir) :
                             /\ start(k) = p
                             /\ ir[k].op # "LOAD_CONST"
                             /\ ir[k].A = code[p + 1]
                             /\ ir[k].B = <<>>
                      \/ \E k \in 1..Len(ir) :
                             /\ start(k) = p - 1
                             /\ ir[k].op = "LOAD_CONST"
                             /\ code[p] \notin {12, 27, 38})

C13_Witness ==
    /\ pc = "decode"
    /\ code = <<38, 14, 27>>
    /\ i = 3
    /\ Len(ir) = 2
    /\ ir[1] = READ_MEM
    /\ ir[2].op = "LOAD_CONST"

\* C14 as stated: when the assembler is about to encode, some operand B would
\* make the first byte that encode emits for LOAD_CONST(B) equal to 12, 27 or
\* 38 (and decode would take that byte for a one-byte instruction).
C14_Collision ==
    pc = "encode" =>
        \E b \in WideOperands : encode(<<LOAD_CONST(b)>>)[1] \in DOMAIN one_byte

\* C14 (amended): for every integer operand B the first byte that encode emits
\* for LOAD_CONST(B) is 14 + 64 * (B mod 4), one of 14, 78, 142, 206 and never
\* 12, 27 or 38; decode takes it as the start of a two-byte word, does not
\* fail and returns as many instructions, of the same opcodes, as were encoded.
C14_NoCollision ==
    /\ pc # "encode" =>
           /\ code[1] = 14 + 64 * (src[1].B[1] % 4)
           /\ code[1] \in {14, 78, 142, 206}
           /\ code[1] \notin {12, 27, 38}
    /\ pc # "exit"
    /\ i > 0 => (i >= 2 /\ ir[1].op = "LOAD_CONST")
    /\ Decoded =>
           /\ Len(ir) = Len(src)
           /\ \A k \in 1..Len(src) : ir[k].op = src[k].op

C14_Witness ==
    /\ pc = "vm"
    /\ src = <<LOAD_CONST(4999), READ_MEM>>
    /\ code[1] = 206
    /\ Len(ir) = 2
    /\ ir[2] = READ_MEM

\* C18: operand truncation. For every integer operand B, also B >= 1024 and
\* B < 0, LOAD_CONST(B) is encoded in exactly two bytes, the 16-bit
\* little-endian form of (14 + 64*B) mod 65536, and they decode without
\* failure to the one instruction LOAD_CONST(B mod 1024).
C18_Truncation ==
    LET B == src[1].B[1]
        w == (14 + 64 * B) % 65536
    IN  /\ pc # "encode" =>
               /\ Len(code) = 2 + (Len(src) - 1)
               /\ SubSeq(code, 1, 2) = <<w % 256, w \div 256>>
        /\ pc # "exit" /\ err = <<>>
        /\ i > 0 => (i >= 2 /\ ir[1] = [op |-> "LOAD_CONST", A |-> 14, B |-> <<B % 1024>>])
        /\ Decoded => Len(ir) = Len(src)

C18_Witness ==
    /\ pc = "vm"
    /\ src = <<LOAD_CONST(-1)>>
    /\ code = <<206, 255>>
    /\ ir = <<LOAD_CONST(1023)>>

\* C15: sequential execution, halt at the first fault. run takes the
\* instructions in order from index 0, one at a time; a failing instruction
\* ends the run: nothing is executed after it and what the earlier
\* instructions did to the stack and the memory stays; without a failure every
\* instruction is executed once, in order.
C15_Sequential ==
    /\ [][pc = "vm" => (ip' = 0 /\ pc' = "run")]_vars
    /\ [][pc = "run" => (\/ ip' = ip + 1 /\ ip < Len(code_memory)
                         \/ ip' = ip /\ ip = Len(code_memory) /\ pc' = "done")]_vars
    /\ [][pc \notin {"fault", "done"}]_vars
    /\ [][fault' # <<>> => (/\ pc' = "fault"
                            /\ data_memory' = data_memory
                            /\ Len(stack') <= Len(stack)
                            /\ stack' = SubSeq(stack, 1, Len(stack')))]_vars
    /\ [](pc = "fault" => (fault # <<>> /\ ip >= 1 /\ ip <= Len(code_memory)))
    /\ [](pc = "done" => (fault = <<>> /\ ip = Len(code_memory)))
    /\ []((/\ pc \in {"run", "done"}
            /\ \A k \in 1..ip : code_memory[k].op = "LOAD_CONST")
             => stack = [k \in 1..ip |-> code_memory[k].B[1]])
    /\ []((/\ pc = "fault"
            /\ Len(code_memory) = 4
            /\ code_memory[1].op = "LOAD_CONST"
            /\ code_memory[1].B[1] \in 0..(mem_size - 1)
            /\ code_memory[2].op = "LOAD_CONST"
            /\ code_memory[3] = WRITE_MEM)
             => (/\ ip = 4
                 /\ data_memory[code_memory[1].B[1]] = code_memory[2].B[1]))

C15_Witness ==
    /\ pc = "fault"
    /\ mem_size = 4
    /\ code_memory = <<LOAD_CONST(1), LOAD_CONST(99), WRITE_MEM, READ_MEM>>
    /\ ip = 4
    /\ fault = <<"StackUnderflow">>
    /\ data_memory[1] = 99

\* C16: memory and code frame. In every executor state the data memory has
\* exactly size cells and the loaded code is the sequence given to run; a
\* memory cell changes only by a successful WRITE_MEM, which changes one cell;
\* LOAD_CONST(B) never fails, pushes exactly B and leaves the memory unchanged.
C16_Frame ==
    /\ [](pc \in {"run", "fault", "done"}
            => (/\ DOMAIN data_memory = 0..(mem_size - 1)
                /\ Cardinality(DOMAIN data_memory) = mem_size
                /\ code_memory = ir))
    /\ [][pc = "run" => code_memory' = code_memory]_vars
    /\ [][ (pc = "run" /\ data_memory' # data_memory)
           => (/\ Fetch("WRITE_MEM")
               /\ fault' = <<>>
               /\ Cardinality({c \in 0..(mem_size - 1) : data_memory'[c] # data_memory[c]}) = 1
               /\ data_memory'[stack[Len(stack) - 1]] = stack[Len(stack)]) ]_vars
    /\ [][ Fetch("LOAD_CONST")
           => (/\ fault' = <<>>
               /\ pc' = "run"
               /\ stack' = Append(stack, code_memory[ip + 1].B[1])
               /\ data_memory' = data_memory) ]_vars

C16_Witness ==
    /\ pc = "run"
    /\ mem_size = 4
    /\ ip = 3
    /\ code_memory = <<LOAD_CONST(1), LOAD_CONST(5), WRITE_MEM>>
    /\ code_memory = ir
    /\ data_memory = [a \in 0..3 |-> IF a = 1 THEN 5 ELSE 0]

\* C17: termination. decode of n bytes ends, in success or failure, after at
\* most n iterations, the cursor growing in every iteration that does not
\* fail; run over N instructions ends, in success or fault, after executing
\* at most N instructions.
C17_Termination ==
    /\ <>(pc \in {"exit", "fault", "done"})
    /\ [][(pc = "decode" /\ pc' = "decode") => (i' > i /\ Len(ir') = Len(ir) + 1)]_vars
    /\ [](Len(ir) <= i /\ i <= Len(code))
    /\ [](pc = "exit" => Len(ir) + 1 <= Len(code))
    /\ [](pc \in {"run", "fault", "done"}
            => (Len(code_memory) = Len(ir) /\ ip <= Len(code_memory)))

C17_Witness ==
    /\ pc = "done"
    /\ code = <<14, 0, 38>>
    /\ i = 3
    /\ Len(ir) = 2
    /\ ip = 2
    /\ stack = <<0>>

\* C19: value range of decoded programs. Every LOAD_CONST that decode emits
\* has its operand in 0..1023; when the program executed is decode's output,
\* every value on the stack and in the memory is in 0..1023, and with a memory
\* of at least 1024 cells no AddressOutOfRange fault occurs: the source
\* [LOAD_CONST(5000), LOAD_CONST(1), WRITE_MEM], encoded, decoded and run with
\* 1024 cells, does not fault and sets mem[904] = 1.
C19_ValueRange ==
    /\ \A k \in 1..Len(ir) : ir[k].op = "LOAD_CONST" => ir[k].B[1] \in 0..1023
    /\ \A k \in 1..Len(stack) : stack[k] \in 0..1023
    /\ \A c \in DOMAIN data_memory : data_memory[c] \in 0..1023
    /\ mem_size >= 1024 => (fault = <<>> \/ fault[1] # "AddressOutOfRange")
    /\ (/\ src = <<LOAD_CONST(5000), LOAD_CONST(1), WRITE_MEM>>
        /\ mem_size = 1024
        /\ ip = 3)
         => (/\ pc \in {"run", "done"}
             /\ fault = <<>>
             /\ stack = <<>>
             /\ data_memory[904] = 1)

C19_Witness ==
    /\ pc = "done"
    /\ mem_size = 1024
    /\ src = <<LOAD_CONST(5000), LOAD_CONST(1), WRITE_MEM>>
    /\ code_memory = <<LOAD_CONST(904), LOAD_CONST(1), WRITE_MEM>>
    /\ data_memory[904] = 1
    /\ fault = <<>>

\* C20 as stated: when READ_MEM or WRITE_MEM fails, the stack and the memory
\* are exactly as they were before the instruction started.
C20_Untouched ==
    [][ ((Fetch("READ_MEM") \/ Fetch("WRITE_MEM")) /\ fault' # <<>>)
        => (stack' = stack /\ data_memory' = data_memory) ]_vars

\* C20 (amended): when READ_MEM or WRITE_MEM fails the memory is as it was
\* before the instruction, but the operands popped before the fault was
\* detected are gone: after StackUnderflow the stack is empty (WRITE_MEM on one
\* item loses it), after an out-of-range READ_MEM the address is removed, after
\* an out-of-range WRITE_MEM the value and the address are removed.
C20_PoppedOperandsLost ==
    [][ ((Fetch("READ_MEM") \/ Fetch("WRITE_MEM")) /\ fault' # <<>>)
        => /\ data_memory' = data_memory
           /\ fault'[1] \in {"StackUnderflow", "AddressOutOfRange"}
           /\ fault'[1] = "StackUnderflow" =>
                  (stack' = <<>> /\ Len(stack) < (IF Fetch("READ_MEM") THEN 1 ELSE 2))
           /\ (fault'[1] = "AddressOutOfRange" /\ Fetch("READ_MEM")) =>
                  stack' = SubSeq(stack, 1, Len(stack) - 1)
           /\ (fault'[1] = "AddressOutOfRange" /\ Fetch("WRITE_MEM")) =>
                  (Len(stack) >= 2 /\ stack' = SubSeq(stack, 1, Len(stack) - 2)) ]_vars

C20_Witness ==
    /\ pc = "fault"
    /\ mem_size = 4
    /\ code_memory = <<LOAD_CONST(-1), LOAD_CONST(5), WRITE_MEM>>
    /\ ip = 3
    /\ fault = <<"AddressOutOfRange", "WRITE_MEM", -1>>
    /\ stack = <<>>

====
